---- MODULE Spec2Model ----
(***************************************************************************)
(* Infinite-Canvas: the useParallax hook of src/Framer/infiniteCanvas.tsx  *)
(* (camera/zoom physics, card drag/focus state machine, frame ticker) and  *)
(* the parts of the infinitecanvas component that feed it.                 *)
(*                                                                         *)
(* Numbers.  The code computes in IEEE doubles; the model computes in      *)
(* integers.  Camera depths, pan positions, velocities and screen pixels   *)
(* are whole units, a quotient being truncated toward zero (Div).  Card    *)
(* drag deltas (liveDelta, dragStartDelta, draggedCardDeltas) are kept in  *)
(* thousandths of a world unit (MILLI), which makes the division by the    *)
(* effective scale PERSPECTIVE / (PERSPECTIVE - cameraZ) exact.            *)
(*                                                                         *)
(* React.  A state setter that changes a value re-renders the component    *)
(* before the next event or frame; when one of the layout effect's         *)
(* dependencies changed, the commit runs the effect's cleanup and then the *)
(* effect again.  The actions below include that commit.                   *)
(***************************************************************************)
EXTENDS Integers, Sequences, FiniteSets, TLC

\* ------------------------------------------------------------------------
\* Bounds of the model
\* ------------------------------------------------------------------------
MaxTicks == 2
MaxFocusFrames == 1
MaxDrags == 2
MaxPointers == 1
MaxCardPointers == 2
MaxZoomIntents == 2
MaxPanIntents == 2
MaxPanGestures == 1
MaxGridSize == 5
MaxK == 3
GridSize == 3

\* ------------------------------------------------------------------------
\* Program constants
\* ------------------------------------------------------------------------
PERSPECTIVE == 1000
MIN_CAMERA_Z == -4000
MAX_CAMERA_Z == 750
ZOOM_SPEED_MULTIPLIER == 4
ANTICIPATION_AMOUNT == 20
CLICK_DISTANCE == 5
initialZoom == -4000
baseWorldWidth == 4000
baseWorldHeight == 4000
globalScale == 1
scrollSpeed == 1
layoutScaleFactor == 1
DEFAULT_CARD_WIDTH == 300
DEFAULT_CARD_HEIGHT == 375
MILLI == 1000

\* the lerp and damping factors of the ticker, in hundredths
LERP_FACTOR_FOCUS == 8
LERP_FACTOR_FREE == 7
PAN_DAMPING_FACTOR == 94
ZOOM_DAMPING_FACTOR == 92

NULL == "null"
NoTile == -1

\* defaultProps.layout: per layer, speed in tenths and baseZ
SPEED_DEN == 10
defaultLayout ==
  [i \in 0..2 |->
     CASE i = 0 -> [speed |-> 3, baseZ |-> -600]
       [] i = 1 -> [speed |-> 6, baseZ |-> -300]
       [] i = 2 -> [speed |-> 10, baseZ |-> 0]]

\* layout props the host can pass: the default, the middle layer pinned
\* (speed 0), and the middle layer at a baseZ that puts the projection
\* denominator PERSPECTIVE - (baseZ + target Z) at zero for a target depth
\* of 0, 20 or 500
midLayer(speed, baseZ) ==
  [defaultLayout EXCEPT ![1] = [speed |-> speed, baseZ |-> baseZ]]
Layouts ==
  {defaultLayout, midLayer(0, -300), midLayer(6, 1000), midLayer(6, 980),
   midLayer(6, 500)}

\* the card list (defaultProps.cards): layer, authored position, scale in tenths
CardIds == {"c1", "c2"}
cards ==
  [c \in CardIds |->
     IF c = "c1" THEN [layer |-> 2, x |-> 150, y |-> -50, scale |-> 13]
                 ELSE [layer |-> 1, x |-> 400, y |-> 450, scale |-> 11]]

\* ------------------------------------------------------------------------
\* Inputs the environment can produce
\* ------------------------------------------------------------------------
\* ids a focus request can carry: the authored cards and one that never was
RequestIds == CardIds \cup {"c3"}
\* values of the `cards` prop: all cards, or c2 removed
CardLists == {CardIds, {"c1"}}
Zero2 == [x |-> 0, y |-> 0]
PointerPositions ==
  {[x |-> 0, y |-> 0], [x |-> 2, y |-> 0], [x |-> 3, y |-> 4], [x |-> 50, y |-> 0]}
PointerDownPositions == {[x |-> 0, y |-> 0]}
\* a pointer that stays put or travels 50 px
RestOrFar == {[x |-> 0, y |-> 0], [x |-> 50, y |-> 0]}
ContainerSizes == {[width |-> 0, height |-> 0], [width |-> 1000, height |-> 800]}
MeasuredDimensions == {[width |-> 320, height |-> 200]}
ResizedCards == {"c1"}
WheelDeltas == {-1200, -100, 100}
\* drag and wheel-pan deltas in pixels
PanDeltas == {[x |-> 100, y |-> 0], [x |-> -40, y |-> 30]}
PinchDistances == {100, 200}
\* wheel-pan deltas that carry the pan across several tile periods
FarPanDeltas == {[x |-> 900, y |-> -700], [x |-> -1300, y |-> 2100]}
\* tiling props the host can pass: every grid size from 1, odd or even
TileGaps == {0, 200}
Tilings == [gridSize : 1..MaxGridSize, tileGap : TileGaps]

\* ------------------------------------------------------------------------
\* Arithmetic helpers
\* ------------------------------------------------------------------------
Abs(a) == IF a < 0 THEN -a ELSE a
Min(a, b) == IF a < b THEN a ELSE b
Max(a, b) == IF a > b THEN a ELSE b

\* a / b of the code, truncated toward zero (b # 0)
Div(a, b) ==
  IF (a >= 0) = (b > 0) THEN Abs(a) \div Abs(b) ELSE -(Abs(a) \div Abs(b))

\* Math.round(a / b) for b > 0: nearest integer, halves toward +infinity
RoundDiv(a, b) == (2 * a + b) \div (2 * b)

\* a % b of the code: the remainder has the sign of a
JsRem(a, b) == a - b * Div(a, b)

\* variant: the remainder taken once, without the second modulo
wrapTruncating(value, max) ==
  JsRem(value + max \div 2, max) - max \div 2

\* variant: the remainder made positive but not reduced again
wrapNoSecondModulo(value, max) ==
  JsRem(value + max \div 2, max) + max - max \div 2

\* wrap(value, max) of the ticker, for an even max
wrap(value, max) ==
  JsRem(JsRem(value + max \div 2, max) + max, max) - max \div 2

\* gsap.utils.clamp(min, max, value)
clamp(lo, hi, v) == IF v < lo THEN lo ELSE IF v > hi THEN hi ELSE v

\* variant: the offsets counted from zero instead of centred on it
generateTileOffsetsFromZero(size) ==
  LET half == size \div 2
      side == 2 * half + 1
  IN  [i \in 1..(side * side) |->
         [x |-> (i - 1) % side, y |-> (i - 1) \div side]]

\* generateTileOffsets(size): row-major, y outer and x inner
generateTileOffsets(size) ==
  LET half == size \div 2
      side == 2 * half + 1
  IN  [i \in 1..(side * side) |->
         [x |-> ((i - 1) % side) - half, y |-> ((i - 1) \div side) - half]]

\* the tile instance the pointer goes down on (search results focus the
\* central one)
PointerTiles == {0}
\* tile instances of the 3 x 3 grid a click can land on: a corner, the
\* centre, the centre's right-hand neighbour
ClickedTiles == {0, 4, 5}

\* getEffectiveScale() is PERSPECTIVE / EffectiveScaleDen(cameraZ)
EffectiveScaleDen(z) == PERSPECTIVE - Min(z, PERSPECTIVE - 1)


\* ------------------------------------------------------------------------
\* State
\* ------------------------------------------------------------------------
VARIABLES
  \* refs of useParallax: camera
  panPosition, panVelocity, cameraZ, targetCameraZ, zoomVelocity,
  pinchStartCameraZ, pinchStartDist, isPinching,
  viewportSize, isInitialViewApplied,
  \* refs of useParallax: card drag and focus
  draggedCardDeltas, interactionState, lastDraggedCardId, internalTileIndex,
  \* React state and props
  focusedCardId, activeDragCardId, cardDimensions, enableFocusClick,
  \* the layout prop (per layer: speed in tenths, baseZ) and the tiling prop
  \* (gridSize, tileGap)
  layout, tiling,
  \* the ids of the cards in the `cards` prop
  cardList,
  \* interaction.enableCardDrag
  enableCardDrag,
  \* per card, the x/y last written to its elements (gsap.set in
  \* updateLayout, gsap.to in the ticker) minus initialX/initialY, in
  \* thousandths; every tile instance of a card is written the same value
  cardOffset,
  \* what the running layout effect holds: the activeDragCardId its ticker
  \* closure captured, and whether the component is mounted
  tickerActiveDragCardId, mounted,
  \* the environment: listeners on window, the container's size, the
  \* position of the last pointer event, pressed pointers, touch contacts
  windowListeners, containerSize, pointerPos, pointersDown, touches,
  \* history: frames that moved the camera, drags committed, zoom intents
  \* received, the camera depth the drag in progress last read
  \* (0 when none is in progress), the sum of the live deltas of each card's
  \* resolved drags, how handlePointerUp classified the last gesture
  \* ("none", "click" or "drag") and the focusedCardId it saw, the drag and
  \* wheel-pan intents received
  ticks, drags, zoomIntents, moveZ, sumLive, lastGesture, panIntents,
  \* the cards with a lift or snap-back tween of the ticker in flight
  tweens,
  \* the x and y the last painted frame set on each layer element, in
  \* tenths of a unit
  layerOffsets,
  \* whether panPosition holds finite numbers; once a frame has written
  \* Infinity or NaN into it, the integers in panPosition mean nothing
  panFinite

\* what a run of the layout effect writes
layoutVars ==
  <<viewportSize, isInitialViewApplied, panPosition, panFinite, cameraZ,
    targetCameraZ, tickerActiveDragCardId, cardOffset>>
velocityVars == <<panVelocity, zoomVelocity>>
pinchVars == <<pinchStartCameraZ, pinchStartDist, isPinching, touches>>
dragVars ==
  <<draggedCardDeltas, interactionState, lastDraggedCardId, activeDragCardId>>
pointerVars == <<pointerPos, pointersDown>>
historyVars == <<drags, moveZ, sumLive, lastGesture, panIntents>>
focusVars == <<focusedCardId, internalTileIndex>>
propVars ==
  <<cardDimensions, enableFocusClick, layout, tiling, cardList, enableCardDrag>>
vars ==
  <<layoutVars, velocityVars, pinchVars, dragVars, pointerVars, historyVars,
    focusVars, propVars, mounted, windowListeners, containerSize, ticks,
    zoomIntents, tweens, layerOffsets>>

\* config.layers, built from the layout prop
layers == [i \in 0..2 |-> layout[i]]

\* defaultProps.tiling, with the grid size of the model
defaultTiling == [gridSize |-> GridSize, tileGap |-> 0]
tileGap == tiling.tileGap

TILE_OFFSETS == generateTileOffsets(tiling.gridSize)
\* the range the ticker wraps layer offsets into, per axis, in tenths
wrapRange ==
  [x |-> (baseWorldWidth + tileGap) * SPEED_DEN,
   y |-> (baseWorldHeight * layoutScaleFactor + tileGap) * SPEED_DEN]

\* targetX and targetY of layer i at pan position pan, in tenths
layerTarget(i, pan) ==
  [x |-> pan.x * layers[i].speed, y |-> pan.y * layers[i].speed]

\* the x and y a frame sets on every layer element at pan position pan
paintLayers(pan) ==
  [i \in 0..2 |->
     [x |-> wrap(layerTarget(i, pan).x, wrapRange.x),
      y |-> wrap(layerTarget(i, pan).y, wrapRange.y)]]

TileIndices == 0..(Len(TILE_OFFSETS) - 1)
centralTileIndex == Len(TILE_OFFSETS) \div 2

\* interaction toggles the model keeps at their defaults
enableZoom == TRUE
enableDragPan == TRUE
enableScrollPan == TRUE

NoDist == -1
Unmeasured == [width |-> -1, height |-> -1]
IdleState ==
  [mode |-> "IDLE", cardId |-> NULL, tileIndex |-> NoTile,
   pointerStart |-> Zero2, dragStartDelta |-> Zero2, liveDelta |-> Zero2]

\* updateLayout() of the layout effect, run with the container at `size`:
\* the first run that sees a non-empty viewport centres the view on the
\* world origin (mid layer as reference) and zooms out to initialZoom
InitialViewApplies(size) ==
  ~isInitialViewApplied /\ baseWorldWidth > 0 /\ size.width > 0

InitialPan(size) ==
  LET referenceLayerSpeed == layers[1].speed
  IN  IF referenceLayerSpeed > 0
        THEN [x |-> Div((size.width - baseWorldWidth) * SPEED_DEN,
                        2 * referenceLayerSpeed),
              y |-> Div((size.height - baseWorldHeight * layoutScaleFactor) * SPEED_DEN,
                        2 * referenceLayerSpeed)]
        ELSE [x |-> Div(-baseWorldWidth, 2),
              y |-> Div(-baseWorldHeight * layoutScaleFactor, 2)]

\* `deltas` is draggedCardDeltas.current as the run finds it; a card that is
\* not in the list has no element, and gets one, laid out, when it returns
updateLayoutWith(size, deltas) ==
  /\ viewportSize' = size
  /\ isInitialViewApplied' = (isInitialViewApplied \/ InitialViewApplies(size))
  /\ panPosition' = IF InitialViewApplies(size) THEN InitialPan(size) ELSE panPosition
  /\ panFinite' = (InitialViewApplies(size) \/ panFinite)
  /\ cameraZ' = IF InitialViewApplies(size) THEN initialZoom ELSE cameraZ
  /\ targetCameraZ' = IF InitialViewApplies(size) THEN initialZoom ELSE targetCameraZ
  /\ cardOffset' = deltas

updateLayout(size) == updateLayoutWith(size, draggedCardDeltas)

\* A commit in which a dependency of the layout effect changed: the cleanup
\* of the running effect (window listeners removed, ticker removed) and the
\* effect again (updateLayout, a new ticker whose closure captures the
\* activeDragCardId of this render).  `active` is that render's value.
RerunLayoutEffectWith(active, deltas) ==
  /\ updateLayoutWith(containerSize, deltas)
  /\ windowListeners' = {}
  /\ tickerActiveDragCardId' = active

RerunLayoutEffect(active) == RerunLayoutEffectWith(active, draggedCardDeltas)

\* A commit in which no dependency of the layout effect changed
KeepLayoutEffect == UNCHANGED layoutVars

Init ==
  /\ layout = defaultLayout
  /\ tiling = defaultTiling
  /\ containerSize \in ContainerSizes
  /\ viewportSize = containerSize
  /\ isInitialViewApplied = (baseWorldWidth > 0 /\ containerSize.width > 0)
  /\ panPosition = IF containerSize.width > 0 THEN InitialPan(containerSize) ELSE Zero2
  /\ panVelocity = Zero2
  /\ cameraZ = IF containerSize.width > 0 THEN initialZoom ELSE 0
  /\ targetCameraZ = cameraZ
  /\ zoomVelocity = 0
  /\ pinchStartCameraZ = 0
  /\ pinchStartDist = NoDist
  /\ isPinching = FALSE
  /\ draggedCardDeltas = [c \in CardIds |-> Zero2]
  /\ interactionState = IdleState
  /\ lastDraggedCardId = NULL
  /\ internalTileIndex = NoTile
  /\ focusedCardId = NULL
  /\ activeDragCardId = NULL
  /\ cardDimensions = [c \in CardIds |-> Unmeasured]
  /\ enableFocusClick \in BOOLEAN
  /\ tickerActiveDragCardId = NULL
  /\ mounted = TRUE
  /\ windowListeners = {}
  /\ pointerPos = Zero2
  /\ pointersDown = 0
  /\ touches = 0
  /\ ticks = 0
  /\ drags = 0
  /\ zoomIntents = 0
  /\ moveZ = 0
  /\ sumLive = [c \in CardIds |-> Zero2]
  /\ lastGesture = [kind |-> "none", focused |-> NULL]
  /\ panIntents = [drag |-> 0, wheel |-> 0]
  /\ tweens = {}
  /\ layerOffsets = paintLayers(panPosition)
  /\ panFinite = TRUE
  /\ cardList = CardIds
  /\ cardOffset = draggedCardDeltas
  /\ enableCardDrag \in BOOLEAN


\* ------------------------------------------------------------------------
\* Card drag / focus state machine
\* ------------------------------------------------------------------------
DragListeners == {"pointermove", "pointerup"}

\* Math.hypot(liveDelta.x, liveDelta.y) < 5, on a liveDelta in thousandths
\* (a component of 5 units or more already decides; this keeps the squares
\* small)
\* variant: a movement of exactly the click distance still counts as a click
isClickInclusive(liveDelta) ==
  /\ Abs(liveDelta.x) <= CLICK_DISTANCE * MILLI
  /\ Abs(liveDelta.y) <= CLICK_DISTANCE * MILLI
  /\ liveDelta.x * liveDelta.x + liveDelta.y * liveDelta.y
       <= CLICK_DISTANCE * CLICK_DISTANCE * MILLI * MILLI

isClick(liveDelta) ==
  /\ Abs(liveDelta.x) < CLICK_DISTANCE * MILLI
  /\ Abs(liveDelta.y) < CLICK_DISTANCE * MILLI
  /\ liveDelta.x * liveDelta.x + liveDelta.y * liveDelta.y
       < CLICK_DISTANCE * CLICK_DISTANCE * MILLI * MILLI

\* the liveDelta handlePointerMove stores: the screen displacement divided
\* by the effective scale, in thousandths of a world unit
liveDeltaAt(pos, pointerStart, z) ==
  [x |-> (pos.x - pointerStart.x) * EffectiveScaleDen(z),
   y |-> (pos.y - pointerStart.y) * EffectiveScaleDen(z)]

\* variant: a resolved drag overwrites the committed delta with its live delta
committedDeltaOverwrite(dragStartDelta, liveDelta) ==
  [x |-> liveDelta.x, y |-> liveDelta.y]

\* the draggedCardDeltas entry handlePointerUp writes for a resolved drag
committedDelta(dragStartDelta, liveDelta) ==
  [x |-> dragStartDelta.x + liveDelta.x, y |-> dragStartDelta.y + liveDelta.y]

\* variant: a click focuses the central replica, as a search result does
focusAfterPointerUpCentral(click, cardId, tileIndex) ==
  IF click
    THEN IF enableFocusClick
           THEN IF focusedCardId = NULL
                  THEN <<cardId, centralTileIndex>>
                  ELSE <<NULL, NoTile>>
           ELSE <<focusedCardId, internalTileIndex>>
    ELSE <<NULL, NoTile>>

\* variant: a click moves the focus to the clicked card whatever was focused
focusAfterPointerUpSwitch(click, cardId, tileIndex) ==
  IF click
    THEN IF enableFocusClick
           THEN <<cardId, tileIndex>>
           ELSE <<focusedCardId, internalTileIndex>>
    ELSE <<NULL, NoTile>>

\* variant: a drag clears the focus only while focus-click is enabled
focusAfterPointerUpGated(click, cardId, tileIndex) ==
  IF enableFocusClick
    THEN IF click
           THEN IF focusedCardId = NULL
                  THEN <<cardId, tileIndex>>
                  ELSE <<NULL, NoTile>>
           ELSE <<NULL, NoTile>>
    ELSE <<focusedCardId, internalTileIndex>>

\* the focus (card id, tile index) handlePointerUp leaves behind
focusAfterPointerUp(click, cardId, tileIndex) ==
  IF click
    THEN IF enableFocusClick
           THEN IF focusedCardId = NULL
                  THEN <<cardId, tileIndex>>
                  ELSE <<NULL, NoTile>>
           ELSE <<focusedCardId, internalTileIndex>>
    ELSE <<NULL, NoTile>>

\* onPointerDown of a card instance (getCardEventHandlers / handlePointerDown)
handlePointerDown(c, tileIndex, pos) ==
  /\ mounted
  \* only the cards of the list are rendered
  /\ c \in cardList
  /\ pointerPos' = pos
  /\ pointersDown' = pointersDown + 1
  /\ IF enableCardDrag
       THEN /\ interactionState' =
                 [mode |-> "DRAGGING_CARD", cardId |-> c, tileIndex |-> tileIndex,
                  pointerStart |-> pos,
                  dragStartDelta |-> draggedCardDeltas[c],
                  liveDelta |-> Zero2]
            /\ activeDragCardId' = c
            /\ windowListeners' = windowListeners \cup DragListeners
            /\ moveZ' = cameraZ
       ELSE UNCHANGED <<interactionState, activeDragCardId, windowListeners, moveZ>>
  /\ KeepLayoutEffect
  /\ UNCHANGED <<draggedCardDeltas, lastDraggedCardId, drags, sumLive,
                 lastGesture, panIntents, velocityVars, pinchVars, focusVars, propVars,
                 mounted, containerSize, ticks, tweens, layerOffsets, zoomIntents>>

\* a pointermove reaching window while handlePointerMove is attached (no
\* other handler in the program reads pointer moves)
handlePointerMove(pos) ==
  /\ "pointermove" \in windowListeners
  /\ pos # pointerPos
  /\ pointerPos' = pos
  /\ IF interactionState.mode = "DRAGGING_CARD"
       THEN /\ interactionState' =
                 [interactionState EXCEPT
                    !.liveDelta = liveDeltaAt(pos, interactionState.pointerStart, cameraZ)]
            /\ moveZ' = cameraZ
       ELSE UNCHANGED <<interactionState, moveZ>>
  /\ UNCHANGED <<layoutVars, velocityVars, pinchVars, draggedCardDeltas,
                 lastDraggedCardId, activeDragCardId, pointersDown, drags,
                 sumLive, lastGesture, panIntents, focusVars, propVars, mounted,
                 windowListeners, containerSize, ticks, tweens, layerOffsets, zoomIntents>>

\* variant: the release keeps the liveDelta of the gesture
releasedStateKeepingLiveDelta(state) ==
  [state EXCEPT !.mode = "IDLE", !.cardId = NULL, !.tileIndex = NoTile]

\* the record handlePointerUp leaves: the old one with mode IDLE, no card,
\* no tile and a zero liveDelta
releasedState(state) ==
  [state EXCEPT !.mode = "IDLE", !.cardId = NULL, !.tileIndex = NoTile,
                !.liveDelta = Zero2]

\* a pointerup reaching window; handlePointerUp runs when it is attached
\* (after unmount no other handler is left to see a pointerup)
handlePointerUp ==
  /\ mounted \/ "pointerup" \in windowListeners
  /\ pointersDown > 0
  /\ pointersDown' = pointersDown - 1
  /\ IF "pointerup" \in windowListeners
          /\ interactionState.mode = "DRAGGING_CARD"
       THEN LET cardId == interactionState.cardId
                tileIndex == interactionState.tileIndex
                liveDelta == interactionState.liveDelta
                click == isClick(liveDelta)
                resolved == cardId # NULL /\ tileIndex # NoTile
                focus == IF resolved
                           THEN focusAfterPointerUp(click, cardId, tileIndex)
                           ELSE <<focusedCardId, internalTileIndex>>
            IN  /\ lastDraggedCardId' = IF cardId # NULL THEN cardId ELSE lastDraggedCardId
                /\ draggedCardDeltas' =
                     IF resolved /\ ~click
                       THEN [draggedCardDeltas EXCEPT
                               ![cardId] = committedDelta(interactionState.dragStartDelta, liveDelta)]
                       ELSE draggedCardDeltas
                /\ focusedCardId' = focus[1]
                /\ internalTileIndex' = focus[2]
                /\ interactionState' = releasedState(interactionState)
                /\ activeDragCardId' = NULL
                /\ IF focus[1] # focusedCardId
                     THEN RerunLayoutEffectWith(NULL, draggedCardDeltas')
                     ELSE /\ KeepLayoutEffect
                          /\ windowListeners' = windowListeners \ DragListeners
                /\ drags' = IF resolved /\ ~click THEN drags + 1 ELSE drags
                /\ sumLive' =
                     IF resolved /\ ~click
                       THEN [sumLive EXCEPT
                               ![cardId] = [x |-> @.x + liveDelta.x, y |-> @.y + liveDelta.y]]
                       ELSE sumLive
                /\ lastGesture' = [kind |-> IF click THEN "click" ELSE "drag",
                                    focused |-> focusedCardId]
                /\ moveZ' = 0
       ELSE /\ KeepLayoutEffect
            /\ UNCHANGED <<dragVars, focusVars, windowListeners, drags,
                           sumLive, lastGesture, moveZ>>
  /\ UNCHANGED <<velocityVars, pinchVars, pointerPos, propVars, mounted,
                 containerSize, ticks, tweens, layerOffsets, zoomIntents, panIntents>>


\* ------------------------------------------------------------------------
\* Focus requests, props, resize, teardown
\* ------------------------------------------------------------------------

\* handleResultClick(cardId), on mouse-down over a search result:
\* setFocusedCard(cardId, centralTileIndex); focusedCardId is a dependency of
\* the layout effect
handleResultClick(c) ==
  /\ mounted
  /\ focusedCardId' = c
  /\ internalTileIndex' = centralTileIndex
  /\ IF c # focusedCardId
       THEN RerunLayoutEffect(activeDragCardId)
       ELSE KeepLayoutEffect /\ UNCHANGED windowListeners
  /\ UNCHANGED <<velocityVars, pinchVars, dragVars, pointerVars, historyVars,
                 propVars, mounted, containerSize, ticks, tweens, layerOffsets, zoomIntents>>

\* the host passes a new `cards` prop; cards is a dependency of the layout
\* effect
setCards(newList) ==
  /\ mounted
  /\ newList # cardList
  /\ cardList' = newList
  /\ RerunLayoutEffect(activeDragCardId)
  /\ UNCHANGED <<velocityVars, pinchVars, dragVars, pointerVars, historyVars,
                 focusVars, cardDimensions, enableFocusClick, layout, tiling,
                 enableCardDrag, mounted, containerSize, ticks, tweens, layerOffsets, zoomIntents>>

\* the condition of the component's focus effect: a card is focused and the
\* `cards` prop has no card of that id. The effect is scheduled by the render
\* that made it true and runs before the next event is handled
focusIsStale == focusedCardId # NULL /\ focusedCardId \notin cardList

\* useEffect(..., [cards, focusedCardId]): setFocusedCardId(null), which
\* re-runs the layout effect; internalTileIndex is not touched
focusValidityEffect ==
  /\ mounted
  /\ focusIsStale
  /\ focusedCardId' = NULL
  /\ RerunLayoutEffect(activeDragCardId)
  /\ UNCHANGED <<velocityVars, pinchVars, dragVars, pointerVars, historyVars,
                 internalTileIndex, propVars, mounted, containerSize, ticks,
                 tweens, layerOffsets, zoomIntents>>

\* variant: the container clears the focus only for pointer-downs that
\* bubbled up from a descendant
backgroundFocusInverted(targetIsContainer) ==
  IF targetIsContainer THEN focusedCardId ELSE NULL

\* the focusedCardId handleBackgroundPointerDown leaves behind:
\* setFocusedCardId(null) when e.target === e.currentTarget
backgroundFocus(targetIsContainer) ==
  IF targetIsContainer THEN NULL ELSE focusedCardId

\* onPointerDown of the container: the pointer went down on the container
\* itself or on a descendant that lets the event bubble (no card: a card's
\* handlePointerDown stops the propagation)
handleBackgroundPointerDown(targetIsContainer) ==
  /\ mounted
  /\ pointersDown' = pointersDown + 1
  /\ focusedCardId' = backgroundFocus(targetIsContainer)
  /\ IF focusedCardId' # focusedCardId
       THEN RerunLayoutEffect(activeDragCardId)
       ELSE KeepLayoutEffect /\ UNCHANGED windowListeners
  /\ lastGesture' =
       [kind |-> IF targetIsContainer THEN "background" ELSE "bubbled",
        focused |-> focusedCardId]
  /\ UNCHANGED <<velocityVars, pinchVars, dragVars, pointerPos, drags, moveZ,
                 sumLive, panIntents, internalTileIndex, propVars, mounted,
                 containerSize, ticks, tweens, layerOffsets, zoomIntents>>

\* handleCardResize(cardId, dimensions), called by a card's ResizeObserver;
\* cardDimensions is a dependency of the layout effect
handleCardResize(c, dimensions) ==
  /\ mounted
  /\ cardDimensions[c] # dimensions
  /\ cardDimensions' = [cardDimensions EXCEPT ![c] = dimensions]
  /\ RerunLayoutEffect(activeDragCardId)
  /\ UNCHANGED <<velocityVars, pinchVars, dragVars, pointerVars, historyVars,
                 focusVars, enableFocusClick, layout, tiling, cardList, enableCardDrag,
                 mounted,
                 containerSize, ticks, tweens, layerOffsets, zoomIntents>>

\* the host passes a new `interaction` prop with enableFocusClick flipped;
\* interactionConfig is a dependency of the layout effect
setInteraction(focusClick) ==
  /\ mounted
  /\ focusClick # enableFocusClick
  /\ enableFocusClick' = focusClick
  /\ RerunLayoutEffect(activeDragCardId)
  /\ UNCHANGED <<velocityVars, pinchVars, dragVars, pointerVars, historyVars,
                 focusVars, cardDimensions, layout, tiling, cardList, enableCardDrag,
                 mounted,
                 containerSize, ticks, tweens, layerOffsets, zoomIntents>>

\* the ResizeObserver of the container calls updateLayout
resizeObserved(size) ==
  /\ mounted
  /\ size # containerSize
  /\ containerSize' = size
  /\ updateLayout(size)
  /\ UNCHANGED <<tickerActiveDragCardId, velocityVars, pinchVars, dragVars,
                 pointerVars, historyVars, focusVars, propVars, mounted,
                 windowListeners, ticks, tweens, layerOffsets, zoomIntents>>

\* the host passes a new `layout` prop; config is a dependency of the
\* layout effect
setLayout(newLayout) ==
  /\ mounted
  /\ newLayout # layout
  /\ layout' = newLayout
  /\ RerunLayoutEffect(activeDragCardId)
  /\ UNCHANGED <<velocityVars, pinchVars, dragVars, pointerVars, historyVars,
                 focusVars, cardDimensions, enableFocusClick, tiling, cardList, enableCardDrag,
                 mounted,
                 containerSize, ticks, tweens, layerOffsets, zoomIntents>>

\* the host passes a new `tiling` prop; tilingConfig and TILE_OFFSETS are
\* dependencies of the layout effect
setTiling(newTiling) ==
  /\ mounted
  /\ newTiling # tiling
  /\ tiling' = newTiling
  /\ RerunLayoutEffect(activeDragCardId)
  /\ UNCHANGED <<velocityVars, pinchVars, dragVars, pointerVars, historyVars,
                 focusVars, cardDimensions, enableFocusClick, layout, cardList, enableCardDrag,
                 mounted,
                 containerSize, ticks, tweens, layerOffsets, zoomIntents>>

\* a lift or snap-back tween of card c runs to its end (0.3 s / 0.4 s after
\* the last frame that started it); gsap's own ticker drives it
tweenComplete(c) ==
  /\ c \in tweens
  /\ tweens' = tweens \ {c}
  /\ UNCHANGED <<layoutVars, velocityVars, pinchVars, dragVars, pointerVars,
                 historyVars, focusVars, propVars, mounted, windowListeners,
                 containerSize, ticks, layerOffsets, zoomIntents>>

\* unmount: the cleanup of the layout effect
teardown ==
  /\ mounted
  /\ mounted' = FALSE
  /\ windowListeners' = windowListeners \ DragListeners
  /\ UNCHANGED <<layoutVars, velocityVars, pinchVars, dragVars, pointerVars,
                 historyVars, focusVars, propVars, containerSize, ticks, tweens, layerOffsets,
                 zoomIntents>>

\* ------------------------------------------------------------------------
\* The ticker
\* ------------------------------------------------------------------------

\* lerp step of the ticker: from + (to - from) * factor / 100
lerp(from, to, factor) == from + Div((to - from) * factor, 100)

\* the camera depth the focus attraction pulls toward for card c
cardTargetZ(c) ==
  LET card == cards[c]
      dims == cardDimensions[c]
      cardUnscaledWidth == IF dims # Unmeasured THEN dims.width ELSE DEFAULT_CARD_WIDTH
      cardUnscaledHeight == IF dims # Unmeasured THEN dims.height ELSE DEFAULT_CARD_HEIGHT
      \* cardActual = unscaled * scale / 10 * globalScale;
      \* requiredScale = 0.8 * min(viewport) / max(cardActual)
      num == PERSPECTIVE * Max(cardUnscaledWidth, cardUnscaledHeight)
               * card.scale * globalScale
      den == 8 * Min(viewportSize.width, viewportSize.height)
  IN  IF den = 0
        THEN MIN_CAMERA_Z   \* PERSPECTIVE / 0 is Infinity; clamped
        ELSE clamp(MIN_CAMERA_Z, MAX_CAMERA_Z,
                   PERSPECTIVE - Div(num, den) - layers[card.layer].baseZ)

\* cardTargetPan of the ticker: the pan position that centres the replica
\* of card c in tile instance tileIndex, before any wrap
cardTargetPan(c, tileIndex) ==
  LET card == cards[c]
      speed == layers[card.layer].speed
      dims == cardDimensions[c]
      cardUnscaledWidth == IF dims # Unmeasured THEN dims.width ELSE DEFAULT_CARD_WIDTH
      cardUnscaledHeight == IF dims # Unmeasured THEN dims.height ELSE DEFAULT_CARD_HEIGHT
      tileOffset == TILE_OFFSETS[tileIndex + 1]
      worldWidth == baseWorldWidth
      worldHeight == baseWorldHeight * layoutScaleFactor
      cardInTilePosX == Div(worldWidth, 2) + card.x * layoutScaleFactor
                          + Div(draggedCardDeltas[c].x, MILLI)
      cardInTilePosY == Div(worldHeight, 2) + card.y * layoutScaleFactor
                          + Div(draggedCardDeltas[c].y, MILLI)
      cardWorldCenterX == cardInTilePosX + Div(cardUnscaledWidth, 2)
                            + tileOffset.x * (worldWidth + tileGap)
      cardWorldCenterY == cardInTilePosY + Div(cardUnscaledHeight, 2)
                            + tileOffset.y * (worldHeight + tileGap)
      targetLayerPanX == Div(viewportSize.width, 2) - cardWorldCenterX
      targetLayerPanY == Div(viewportSize.height, 2) - cardWorldCenterY
  IN  [x |-> Div(targetLayerPanX * SPEED_DEN, speed),
       y |-> Div(targetLayerPanY * SPEED_DEN, speed)]

\* variant: the attraction pulls toward the clicked replica itself, however
\* far away it is
closestTargetPanNominal(c, tileIndex, pan) ==
  cardTargetPan(c, tileIndex)

\* the pan position the focus attraction pulls toward: the replica of card
\* c's tile instance nearest to pan position `pan`
closestTargetPan(c, tileIndex, pan) ==
  LET speed == layers[cards[c].layer].speed
      nominal == cardTargetPan(c, tileIndex)
      \* panPeriod = (world + tileGap) / speed = wrapRange / speed
      wrapX == IF speed > 0 /\ wrapRange.x > 0
                 THEN RoundDiv((pan.x - nominal.x) * speed, wrapRange.x) ELSE 0
      wrapY == IF speed > 0 /\ wrapRange.y > 0
                 THEN RoundDiv((pan.y - nominal.y) * speed, wrapRange.y) ELSE 0
  IN  [x |-> nominal.x + Div(wrapX * wrapRange.x, speed),
       y |-> nominal.y + Div(wrapY * wrapRange.y, speed)]

\* variant: the zoom integration without the clamp
integrateTargetZUnclamped(target, velocity) ==
  target + velocity

\* targetCameraZ after the ticker's zoom integration
integrateTargetZ(target, velocity) ==
  clamp(MIN_CAMERA_Z, MAX_CAMERA_Z, target + velocity)

\* variant: the lookup finds every card that was ever authored
findCardEverAuthored(id) == IF id \in CardIds THEN id ELSE NULL

\* cards.find((c) => c.id === id): the card of that id in the `cards` prop,
\* or none
findCard(id) == IF id \in cardList THEN id ELSE NULL

\* cardTargetPan divides targetLayerPan by the layer's speed with no guard:
\* on a layer of speed 0 the quotient is Infinity, -Infinity or NaN
cardTargetPanFinite(c) == layers[cards[c].layer].speed # 0

\* one frame of the gsap ticker callback
tick ==
  /\ mounted
  /\ LET target1 == integrateTargetZ(targetCameraZ, zoomVelocity)
         z1 == lerp(cameraZ, target1, LERP_FACTOR_FREE)
         pan1 == [x |-> panPosition.x + panVelocity.x,
                  y |-> panPosition.y + panVelocity.y]
         focused == focusedCardId # NULL /\ internalTileIndex # NoTile
                      /\ findCard(focusedCardId) # NULL
         \* TILE_OFFSETS[tileIndex] is undefined for an index outside the
         \* grid: reading its x throws and ends the frame there
         thrown == focused /\ internalTileIndex \notin TileIndices
         attracted == focused /\ ~thrown
         finite == attracted => cardTargetPanFinite(focusedCardId)
         closest == closestTargetPan(focusedCardId, internalTileIndex, pan1)
     IN  /\ targetCameraZ' = target1
         /\ zoomVelocity' = Div(zoomVelocity * ZOOM_DAMPING_FACTOR, 100)
         /\ panVelocity' = [x |-> Div(panVelocity.x * PAN_DAMPING_FACTOR, 100),
                            y |-> Div(panVelocity.y * PAN_DAMPING_FACTOR, 100)]
         \* panPosition += (closestTargetPan - panPosition) * 0.08 with a
         \* non-finite target leaves a non-finite pan, and so does every
         \* later frame
         /\ panFinite' = (panFinite /\ finite)
         /\ panPosition' =
              IF attracted /\ finite
                THEN [x |-> lerp(pan1.x, closest.x, LERP_FACTOR_FOCUS),
                      y |-> lerp(pan1.y, closest.y, LERP_FACTOR_FOCUS)]
                ELSE pan1
         /\ cameraZ' =
              IF attracted
                THEN lerp(z1, cardTargetZ(focusedCardId), LERP_FACTOR_FOCUS)
                ELSE z1
         \* the layer transforms, then the drag visuals: a lift tween on the dragged card's replicas, or
         \* a snap-back tween on the card last dragged
         /\ layerOffsets' = IF thrown THEN layerOffsets ELSE paintLayers(panPosition')
         /\ IF thrown
              THEN UNCHANGED <<lastDraggedCardId, tweens, cardOffset>>
              ELSE IF interactionState.mode = "DRAGGING_CARD"
                        /\ interactionState.cardId # NULL
                     THEN IF findCard(interactionState.cardId) # NULL
                            THEN /\ tweens' = tweens \cup {interactionState.cardId}
                                 \* liveX = initialX + dragStartDelta.x + liveDelta.x
                                 /\ cardOffset' =
                                      [cardOffset EXCEPT ![interactionState.cardId] =
                                         [x |-> interactionState.dragStartDelta.x
                                                  + interactionState.liveDelta.x,
                                          y |-> interactionState.dragStartDelta.y
                                                  + interactionState.liveDelta.y]]
                                 /\ UNCHANGED lastDraggedCardId
                            ELSE UNCHANGED <<lastDraggedCardId, tweens, cardOffset>>
                     ELSE /\ cardOffset' = cardOffset
                          /\ IF tickerActiveDragCardId = NULL /\ lastDraggedCardId # NULL
                               THEN /\ tweens' =
                                         IF findCard(lastDraggedCardId) # NULL
                                           THEN tweens \cup {lastDraggedCardId}
                                           ELSE tweens
                                    /\ lastDraggedCardId' = NULL
                               ELSE UNCHANGED <<lastDraggedCardId, tweens>>
  /\ ticks' = IF <<panPosition', panFinite', cameraZ', targetCameraZ', panVelocity',
                   zoomVelocity'>>
                   = <<panPosition, panFinite, cameraZ, targetCameraZ, panVelocity,
                       zoomVelocity>>
               THEN ticks ELSE ticks + 1
  /\ UNCHANGED <<viewportSize, isInitialViewApplied, tickerActiveDragCardId,
                 pinchVars, draggedCardDeltas, interactionState,
                 activeDragCardId, pointerVars, historyVars, focusVars,
                 propVars, mounted, windowListeners, containerSize,
                 zoomIntents>>


\* ------------------------------------------------------------------------
\* Pan intents: drag and wheel
\* ------------------------------------------------------------------------

\* (delta * speed) / effectiveScale
panDelta(delta) ==
  [x |-> Div(delta.x * scrollSpeed * EffectiveScaleDen(cameraZ), PERSPECTIVE),
   y |-> Div(delta.y * scrollSpeed * EffectiveScaleDen(cameraZ), PERSPECTIVE)]

\* variant: a drag intent is suppressed only during a card gesture
dragSuppressedByCardOnly ==
  ~enableDragPan \/ interactionState.mode # "IDLE"

\* variant: a drag intent is suppressed only while pinching
dragSuppressedByPinchOnly ==
  isPinching \/ ~enableDragPan

\* onDrag returns at once while pinching, with drag-pan disabled, or while
\* a card gesture is in progress
dragSuppressed ==
  isPinching \/ ~enableDragPan \/ interactionState.mode # "IDLE"

\* onDrag({deltaX, deltaY}) of the interaction engine
onDrag(delta) ==
  /\ mounted
  /\ panIntents' = [panIntents EXCEPT !.drag = @ + 1]
  /\ panVelocity' =
       IF dragSuppressed
         THEN panVelocity
         ELSE [x |-> panVelocity.x - panDelta(delta).x,
               y |-> panVelocity.y - panDelta(delta).y]
  /\ UNCHANGED <<layoutVars, zoomVelocity, pinchVars, dragVars, pointerVars,
                 drags, moveZ, sumLive, lastGesture, focusVars, propVars,
                 mounted, windowListeners, containerSize, ticks, tweens, layerOffsets,
                 zoomIntents>>

\* onWheelPan({deltaX, deltaY}): a wheel event without ctrl/meta
onWheelPan(delta) ==
  /\ mounted
  /\ panIntents' = [panIntents EXCEPT !.wheel = @ + 1]
  /\ panVelocity' =
       IF ~enableScrollPan
         THEN panVelocity
         ELSE [x |-> panVelocity.x + panDelta(delta).x,
               y |-> panVelocity.y + panDelta(delta).y]
  /\ UNCHANGED <<layoutVars, zoomVelocity, pinchVars, dragVars, pointerVars,
                 drags, moveZ, sumLive, lastGesture, focusVars, propVars,
                 mounted, windowListeners, containerSize, ticks, tweens, layerOffsets,
                 zoomIntents>>

\* ------------------------------------------------------------------------
\* Zoom intents: wheel and pinch
\* ------------------------------------------------------------------------
\* the layer a zoom intent takes as reference
refLayerIndex ==
  IF focusedCardId # NULL /\ findCard(focusedCardId) # NULL
    THEN cards[focusedCardId].layer ELSE 1

\* variant: only a reference layer that does not move skips the intent
zoomDegenerateSpeedOnly(oldTargetZ, newTargetZ) ==
  layers[refLayerIndex].speed = 0

\* a zoom intent is skipped when the projection degenerates
zoomDegenerate(oldTargetZ, newTargetZ) ==
  LET ref == layers[refLayerIndex]
  IN  \/ PERSPECTIVE - (ref.baseZ + oldTargetZ) = 0
      \/ PERSPECTIVE - (ref.baseZ + newTargetZ) = 0
      \/ ref.speed = 0

\* variant: the cursor offset taken from the viewport origin
panImpulseFromOrigin(point, oldTargetZ, newTargetZ) ==
  LET ref == layers[refLayerIndex]
  IN  [x |-> Div(-point.x * (newTargetZ - oldTargetZ) * SPEED_DEN, PERSPECTIVE * ref.speed),
       y |-> Div(-point.y * (newTargetZ - oldTargetZ) * SPEED_DEN, PERSPECTIVE * ref.speed)]

\* the pan impulse that keeps the point under (mx, my) stationary:
\*   -d * (scale_ratio - 1) / (speed * new_scale)
\* with scale_ratio - 1 = (Z_new - Z_old) / (PERSPECTIVE - Z_new) and
\* new_scale = PERSPECTIVE / (PERSPECTIVE - Z_new), that is
\*   -d * (Z_new - Z_old) / (PERSPECTIVE * speed)
panImpulse(point, oldTargetZ, newTargetZ) ==
  LET ref == layers[refLayerIndex]
      dx == point.x - Div(viewportSize.width, 2)
      dy == point.y - Div(viewportSize.height, 2)
  IN  [x |-> Div(-dx * (newTargetZ - oldTargetZ) * SPEED_DEN, PERSPECTIVE * ref.speed),
       y |-> Div(-dy * (newTargetZ - oldTargetZ) * SPEED_DEN, PERSPECTIVE * ref.speed)]

\* the target depth a wheel-zoom intent asks for
wheelTargetZ(oldTargetZ, deltaY) ==
  oldTargetZ + (IF deltaY > 0 THEN -ANTICIPATION_AMOUNT ELSE ANTICIPATION_AMOUNT)

\* onZoom({deltaY, event}): a wheel event with ctrl/meta held
onZoom(deltaY, point) ==
  /\ mounted
  /\ enableZoom
  /\ zoomIntents' = zoomIntents + 1
  /\ LET oldTargetZ == targetCameraZ
         newTargetZ == wheelTargetZ(oldTargetZ, deltaY)
     IN  IF zoomDegenerate(oldTargetZ, newTargetZ)
           THEN UNCHANGED <<panVelocity, targetCameraZ, zoomVelocity>>
           ELSE /\ panVelocity' =
                     [x |-> panVelocity.x + panImpulse(point, oldTargetZ, newTargetZ).x,
                      y |-> panVelocity.y + panImpulse(point, oldTargetZ, newTargetZ).y]
                /\ targetCameraZ' = newTargetZ
                /\ zoomVelocity' = zoomVelocity - deltaY * ZOOM_SPEED_MULTIPLIER
  /\ UNCHANGED <<viewportSize, isInitialViewApplied, panPosition, panFinite, cameraZ,
                 cardOffset,
                 tickerActiveDragCardId, pinchVars, dragVars, pointerVars,
                 historyVars, focusVars, propVars, mounted, windowListeners,
                 containerSize, ticks, tweens, layerOffsets>>

\* touchstart on the container; the second contact starts a pinch
handleTouchStart(dist) ==
  /\ mounted
  /\ touches < 2
  /\ touches' = touches + 1
  /\ IF touches' = 2
       THEN /\ isPinching' = TRUE
            /\ pinchStartDist' = dist
            /\ pinchStartCameraZ' = targetCameraZ
       ELSE UNCHANGED <<isPinching, pinchStartDist, pinchStartCameraZ>>
  /\ UNCHANGED <<layoutVars, velocityVars, dragVars, pointerVars, historyVars,
                 focusVars, propVars, mounted, windowListeners, containerSize,
                 ticks, tweens, layerOffsets, zoomIntents>>

\* the target depth a pinch at finger distance currentDist asks for:
\* PERSPECTIVE - PERSPECTIVE / (startPerceivedScale * currentDist / startDist)
pinchTargetZ(startZ, startDist, currentDist) ==
  clamp(MIN_CAMERA_Z, MAX_CAMERA_Z,
        PERSPECTIVE - Div((PERSPECTIVE - startZ) * startDist, currentDist))

\* touchmove on the container with two contacts
handleTouchMove(currentDist, center) ==
  /\ mounted
  /\ touches = 2
  /\ pinchStartDist # NoDist
  /\ enableZoom
  /\ zoomIntents' = zoomIntents + 1
  /\ LET oldTargetZ == targetCameraZ
         newTargetZ == pinchTargetZ(pinchStartCameraZ, pinchStartDist, currentDist)
     IN  IF zoomDegenerate(oldTargetZ, newTargetZ)
           THEN UNCHANGED <<panVelocity, targetCameraZ>>
           ELSE /\ panVelocity' =
                     [x |-> panVelocity.x + panImpulse(center, oldTargetZ, newTargetZ).x,
                      y |-> panVelocity.y + panImpulse(center, oldTargetZ, newTargetZ).y]
                /\ targetCameraZ' = newTargetZ
  /\ UNCHANGED <<viewportSize, isInitialViewApplied, panPosition, panFinite, cameraZ,
                 cardOffset,
                 tickerActiveDragCardId, zoomVelocity, pinchVars, dragVars,
                 pointerVars, historyVars, focusVars, propVars, mounted,
                 windowListeners, containerSize, ticks, tweens, layerOffsets>>

\* touchend / touchcancel on the container
handleTouchEnd ==
  /\ mounted
  /\ touches > 0
  /\ touches' = touches - 1
  /\ IF touches' < 2
       THEN isPinching' = FALSE /\ pinchStartDist' = NoDist
       ELSE UNCHANGED <<isPinching, pinchStartDist>>
  /\ UNCHANGED <<layoutVars, velocityVars, pinchStartCameraZ, dragVars,
                 pointerVars, historyVars, focusVars, propVars, mounted,
                 windowListeners, containerSize, ticks, tweens, layerOffsets, zoomIntents>>

\* ------------------------------------------------------------------------
\* Specifications
\* ------------------------------------------------------------------------

\* card and background pointer events, re-renders, frames, teardown; the guards bound the pressed pointers, the committed drags and
\* the frames that move the camera
Next ==
  \/ \E c \in CardIds, t \in PointerTiles, pos \in PointerDownPositions :
       handlePointerDown(c, t, pos) /\ pointersDown' <= MaxPointers
  \/ \E pos \in RestOrFar : handlePointerMove(pos)
  \/ handlePointerUp /\ drags' <= MaxPanGestures
  \/ \E targetIsContainer \in BOOLEAN :
       handleBackgroundPointerDown(targetIsContainer) /\ pointersDown' <= MaxPointers
  \/ \E c \in ResizedCards, d \in MeasuredDimensions : handleCardResize(c, d)
  \/ \E f \in BOOLEAN : setInteraction(f)
  \/ tick /\ ticks' <= MaxFocusFrames
  \/ teardown

\* the container has been laid out when the first gesture arrives
InitMeasured == Init /\ containerSize.width > 0 /\ enableCardDrag

Spec == InitMeasured /\ [][Next]_vars

\* card gestures at every pointer displacement, and frames
NextGesture ==
  \/ \E c \in CardIds, t \in PointerTiles, pos \in PointerDownPositions :
       handlePointerDown(c, t, pos) /\ pointersDown' <= MaxPointers
  \/ \E pos \in PointerPositions : handlePointerMove(pos)
  \/ handlePointerUp /\ drags' <= MaxDrags
  \/ tick /\ ticks' <= MaxFocusFrames

\* the gesture specification keeps focus-click at its default
InitGesture == Init /\ enableFocusClick /\ enableCardDrag

SpecGesture == InitGesture /\ [][NextGesture]_vars

\* wheel and pinch zoom about the viewport centre, focus requests, resizes,
\* frames; the guards bound the zoom intents received and the frames that
\* move the camera
viewportCenter ==
  [x |-> Div(viewportSize.width, 2), y |-> Div(viewportSize.height, 2)]

NextZoom ==
  \/ \E deltaY \in WheelDeltas :
       onZoom(deltaY, viewportCenter) /\ zoomIntents' <= MaxZoomIntents
  \/ \E dist \in PinchDistances : handleTouchStart(dist)
  \/ \E dist \in PinchDistances :
       handleTouchMove(dist, viewportCenter) /\ zoomIntents' <= MaxZoomIntents
  \/ handleTouchEnd
  \/ \E c \in CardIds : handleResultClick(c)
  \/ \E size \in ContainerSizes : resizeObserved(size)
  \/ tick /\ ticks' <= MaxTicks

\* the zoom specification starts with focus-click at its default
InitZoom == Init /\ enableFocusClick /\ enableCardDrag

SpecZoom == InitZoom /\ [][NextZoom]_vars

\* card presses and releases, drag and wheel pan intents, focus requests,
\* frames
NextPan ==
  \/ \E c \in CardIds, t \in PointerTiles, pos \in PointerDownPositions :
       handlePointerDown(c, t, pos) /\ pointersDown' <= MaxPointers
  \/ handlePointerUp /\ drags' <= MaxPanGestures
  \/ \E delta \in PanDeltas :
       onDrag(delta) /\ panIntents'.drag + panIntents'.wheel <= MaxPanIntents
  \/ \E delta \in PanDeltas :
       onWheelPan(delta) /\ panIntents'.drag + panIntents'.wheel <= MaxPanIntents
  \/ \E c \in CardIds : handleResultClick(c)
  \/ tick /\ ticks' <= MaxFocusFrames

InitPan == InitMeasured /\ enableFocusClick

SpecPan == InitPan /\ [][NextPan]_vars

\* card gestures, card resizes, frames, the tweens the frames start running
\* to their end, teardown
NextTeardown ==
  \/ \E c \in CardIds, t \in PointerTiles, pos \in PointerDownPositions :
       handlePointerDown(c, t, pos) /\ pointersDown' <= MaxPointers
  \/ \E pos \in RestOrFar : handlePointerMove(pos)
  \/ handlePointerUp /\ drags' <= MaxDrags
  \/ \E c \in ResizedCards, d \in MeasuredDimensions : handleCardResize(c, d)
  \/ tick /\ ticks' <= MaxFocusFrames
  \/ \E c \in CardIds : tweenComplete(c)
  \/ teardown

SpecTeardown == InitMeasured /\ [][NextTeardown]_vars

\* the host changes the tiling prop between clicks, focus requests,
\* background presses and frames
NextTiles ==
  \/ \E t \in Tilings : setTiling(t)
  \/ \E c \in CardIds, t \in PointerTiles, pos \in PointerDownPositions :
       handlePointerDown(c, t, pos) /\ pointersDown' <= MaxPointers
  \/ handlePointerUp /\ drags' <= MaxPanGestures
  \/ \E c \in CardIds : handleResultClick(c)
  \/ tick /\ ticks' <= MaxFocusFrames

SpecTiles == InitPan /\ [][NextTiles]_vars

\* far wheel pans, tile gap changes, focus requests and the frames that
\* paint the layers
NextWrap ==
  \/ \E delta \in FarPanDeltas :
       onWheelPan(delta) /\ panIntents'.drag + panIntents'.wheel <= MaxPanIntents
  \/ \E gap \in TileGaps : setTiling([gridSize |-> tiling.gridSize, tileGap |-> gap])
  \/ \E c \in CardIds : handleResultClick(c)
  \/ tick /\ ticks' <= MaxTicks

SpecWrap == InitPan /\ [][NextWrap]_vars

\* where a wheel event or the midpoint of a pinch can be: the viewport
\* centre or off it
ZoomPoints ==
  {viewportCenter,
   [x |-> viewportCenter.x + 300, y |-> viewportCenter.y - 150]}

\* wheel and pinch zoom at and off the viewport centre, focus requests, and
\* layout props that make a zoom intent degenerate
NextZoomInput ==
  \/ \E deltaY \in WheelDeltas, point \in ZoomPoints :
       onZoom(deltaY, point) /\ zoomIntents' <= MaxZoomIntents
  \/ \E dist \in PinchDistances : handleTouchStart(dist)
  \/ \E dist \in PinchDistances, point \in ZoomPoints :
       handleTouchMove(dist, point) /\ zoomIntents' <= MaxZoomIntents
  \/ handleTouchEnd
  \/ \E c \in CardIds : handleResultClick(c)
  \/ \E l \in Layouts : setLayout(l)

SpecZoomInput == InitZoom /\ [][NextZoomInput]_vars

\* focus requests and frames while the host changes the layer settings,
\* among them a middle layer of speed 0
NextStatic ==
  \/ \E l \in Layouts : setLayout(l)
  \/ \E c \in CardIds : handleResultClick(c)
  \/ \E delta \in PanDeltas :
       onWheelPan(delta) /\ panIntents'.wheel <= MaxPanGestures
  \/ tick /\ ticks' <= MaxTicks

SpecStatic == InitPan /\ [][NextStatic]_vars

\* card gestures and frames under each setting of enableCardDrag and
\* enableFocusClick
NextToggles ==
  \/ \E c \in CardIds, t \in PointerTiles, pos \in PointerDownPositions :
       handlePointerDown(c, t, pos) /\ pointersDown' <= MaxPointers
  \/ \E pos \in RestOrFar : handlePointerMove(pos)
  \/ handlePointerUp /\ drags' <= MaxDrags
  \/ \E f \in BOOLEAN : setInteraction(f)
  \/ tick /\ ticks' <= MaxFocusFrames

InitToggles == Init /\ containerSize.width > 0

SpecToggles == InitToggles /\ [][NextToggles]_vars

\* two-finger gestures with the drag intents the same contacts produce,
\* card gestures and frames
NextPinch ==
  \/ \E dist \in PinchDistances : handleTouchStart(dist)
  \/ \E dist \in PinchDistances :
       handleTouchMove(dist, viewportCenter) /\ zoomIntents' <= MaxPanGestures
  \/ handleTouchEnd
  \/ \E delta \in PanDeltas :
       onDrag(delta) /\ panIntents'.drag <= MaxPanIntents
  \/ \E c \in CardIds, t \in PointerTiles, pos \in PointerDownPositions :
       handlePointerDown(c, t, pos) /\ pointersDown' <= MaxPointers
  \/ handlePointerUp /\ drags' <= MaxPanGestures
  \/ tick /\ ticks' <= MaxFocusFrames

SpecPinch == InitPan /\ [][NextPinch]_vars

\* card gestures, re-renders on a card resize, and frames; with focus-click
\* off the camera stays where it is, so every frame that has something to
\* animate is a step. The ticker runs on every animation frame: weak
\* fairness on tick
NextSnapBack ==
  \/ \E c \in CardIds, t \in PointerTiles, pos \in PointerDownPositions :
       handlePointerDown(c, t, pos) /\ pointersDown' <= MaxPointers
  \/ \E pos \in RestOrFar : handlePointerMove(pos)
  \/ handlePointerUp /\ drags' <= MaxDrags
  \/ \E c \in ResizedCards, d \in MeasuredDimensions : handleCardResize(c, d)
  \/ tick

InitSnapBack == InitMeasured /\ ~enableFocusClick

SpecSnapBack == InitSnapBack /\ [][NextSnapBack]_vars /\ WF_vars(tick)

\* drags and clicks on several tile instances of a card, wheel pans across
\* tile periods, and frames
NextReplica ==
  \/ \E c \in CardIds, t \in ClickedTiles, pos \in PointerDownPositions :
       handlePointerDown(c, t, pos) /\ pointersDown' <= MaxPointers
  \/ \E pos \in RestOrFar : handlePointerMove(pos)
  \/ handlePointerUp /\ drags' <= MaxPanGestures
  \/ \E delta \in FarPanDeltas :
       onWheelPan(delta) /\ panIntents'.wheel <= MaxPanGestures
  \/ tick /\ ticks' <= MaxFocusFrames

SpecReplica == InitPan /\ [][NextReplica]_vars

\* card gestures with up to MaxCardPointers pointers down at once, under
\* each setting of the toggles, with re-renders on a card resize and frames
NextRecord ==
  \/ \E c \in CardIds, t \in ClickedTiles, pos \in PointerDownPositions :
       handlePointerDown(c, t, pos) /\ pointersDown' <= MaxCardPointers
  \/ \E pos \in RestOrFar : handlePointerMove(pos)
  \/ handlePointerUp /\ drags' <= MaxPanGestures
  \/ \E c \in ResizedCards, d \in MeasuredDimensions : handleCardResize(c, d)
  \/ tick /\ ticks' <= MaxFocusFrames

SpecRecord == InitToggles /\ [][NextRecord]_vars

\* target depths a wheel or a pinch can have left behind
SettledTargets == {MIN_CAMERA_Z, -1000, 0, MAX_CAMERA_Z}

\* the camera has come to rest on a focused card, in a 1000 x 800 container:
\* pan at the target of the focused replica, cameraZ at the card's target
\* depth, velocities decayed to zero; targetCameraZ is wherever the last zoom
\* intents put it
InitSettled ==
  /\ layout = defaultLayout
  /\ tiling = defaultTiling
  /\ cardList = CardIds
  /\ cardDimensions = [c \in CardIds |-> Unmeasured]
  /\ draggedCardDeltas = [c \in CardIds |-> Zero2]
  /\ containerSize = [width |-> 1000, height |-> 800]
  /\ viewportSize = containerSize
  /\ isInitialViewApplied = TRUE
  /\ focusedCardId \in CardIds
  /\ internalTileIndex \in TileIndices
  /\ panPosition = cardTargetPan(focusedCardId, internalTileIndex)
  /\ panVelocity = Zero2
  /\ cameraZ = cardTargetZ(focusedCardId)
  /\ targetCameraZ \in SettledTargets \cup {cameraZ}
  /\ zoomVelocity = 0
  /\ pinchStartCameraZ = 0
  /\ pinchStartDist = NoDist
  /\ isPinching = FALSE
  /\ interactionState = IdleState
  /\ lastDraggedCardId = NULL
  /\ activeDragCardId = NULL
  /\ enableFocusClick = TRUE
  /\ enableCardDrag = TRUE
  /\ tickerActiveDragCardId = NULL
  /\ mounted = TRUE
  /\ windowListeners = {}
  /\ pointerPos = Zero2
  /\ pointersDown = 0
  /\ touches = 0
  /\ ticks = 0
  /\ drags = 0
  /\ zoomIntents = 0
  /\ moveZ = 0
  /\ sumLive = [c \in CardIds |-> Zero2]
  /\ lastGesture = [kind |-> "none", focused |-> NULL]
  /\ panIntents = [drag |-> 0, wheel |-> 0]
  /\ tweens = {}
  /\ layerOffsets = paintLayers(panPosition)
  /\ panFinite = TRUE
  /\ cardOffset = draggedCardDeltas

\* frames of the settled camera, and pinches at the viewport centre, which
\* move targetCameraZ and add no pan impulse
NextSettled ==
  \/ tick /\ ticks' <= MaxTicks
  \/ \E dist \in PinchDistances : handleTouchStart(dist)
  \/ \E dist \in PinchDistances :
       handleTouchMove(dist, viewportCenter) /\ zoomIntents' <= MaxPanGestures
  \/ handleTouchEnd

SpecSettled == InitSettled /\ [][NextSettled]_vars

\* focus requests for any id, changes of the card list, the focus effect
\* they schedule, wheel pans and frames. React runs a scheduled effect
\* before it handles the next event; a frame of the ticker can come first
NextCards ==
  \/ ~focusIsStale /\ \E id \in RequestIds : handleResultClick(id)
  \/ ~focusIsStale /\ \E l \in CardLists : setCards(l)
  \/ focusValidityEffect
  \/ /\ ~focusIsStale
     /\ \E delta \in PanDeltas :
          onWheelPan(delta) /\ panIntents'.wheel <= MaxPanGestures
  \/ tick /\ ticks' <= MaxTicks

SpecCards == InitPan /\ [][NextCards]_vars /\ WF_vars(focusValidityEffect)

\* ------------------------------------------------------------------------
\* Properties
\* ------------------------------------------------------------------------

\* the step in which handlePointerUp resolves a card gesture
Resolves ==
  /\ interactionState.mode = "DRAGGING_CARD"
  /\ interactionState'.mode = "IDLE"

\* squared screen distance, in pixels, between the pointer and the point
\* where the gesture began
ScreenDistSq ==
  LET dx == pointerPos.x - interactionState.pointerStart.x
      dy == pointerPos.y - interactionState.pointerStart.y
  IN  dx * dx + dy * dy

InRange(z) == MIN_CAMERA_Z <= z /\ z <= MAX_CAMERA_Z

\* C1: while the canvas is mounted the window pointermove and pointerup
\* listeners are attached exactly when the interaction mode is DRAGGING_CARD,
\* and after teardown no window listener remains.
C1ListenersIffDragging ==
  /\ mounted =>
       /\ (windowListeners = DragListeners) <=> (interactionState.mode = "DRAGGING_CARD")
       /\ windowListeners \in {{}, DragListeners}
  /\ ~mounted => windowListeners = {}

\* C2: once every pointer is released the card drag is resolved: the mode is
\* IDLE, cardId and tileIndex are null and liveDelta is (0, 0).
C2ReleasedIsIdle ==
  (mounted /\ pointersDown = 0) =>
     /\ interactionState.mode = "IDLE"
     /\ interactionState.cardId = NULL
     /\ interactionState.tileIndex = NoTile
     /\ interactionState.liveDelta = Zero2

\* C3: cameraZ stays within [MIN_CAMERA_Z, MAX_CAMERA_Z] after any sequence
\* of wheel zooms, pinch zooms, focus requests, resizes and frames.
C3CameraZInRange == InRange(cameraZ)

\* a zoom-in impulse has been integrated up to the upper clamp and the camera
\* has followed it from the initial view
C3Witness ==
  /\ targetCameraZ = MAX_CAMERA_Z
  /\ zoomVelocity > 0
  /\ cameraZ > initialZoom
  /\ zoomIntents > 0
  /\ ticks > 0

\* C4: targetCameraZ is within [MIN_CAMERA_Z, MAX_CAMERA_Z] in every
\* reachable state, the states between a zoom input and the next frame
\* included.
C4TargetZInRange == InRange(targetCameraZ)

\* C5: a gesture whose pointer moves were all read at cameraZ = 0 resolves
\* as a click exactly when the pointer ended less than CLICK_DISTANCE pixels
\* from where it began.
C5ClickIffNearAtUnitScale ==
  [][(Resolves /\ moveZ = 0) =>
       (lastGesture'.kind = "click"
          <=> ScreenDistSq < CLICK_DISTANCE * CLICK_DISTANCE)]_vars

\* at unit scale card c1 was dragged by exactly (3, 4) pixels, five pixels
\* away, and a later gesture that ended two pixels away resolved as a click
C5Witness ==
  /\ cameraZ = 0
  /\ ticks = 0
  /\ interactionState.mode = "IDLE"
  /\ lastGesture.kind = "click"
  /\ pointerPos = [x |-> 2, y |-> 0]
  /\ interactionState.pointerStart = Zero2
  /\ draggedCardDeltas["c1"] = [x |-> 3 * MILLI, y |-> 4 * MILLI]

\* C6: at every zoom level a gesture resolves as a click exactly when the
\* pointer ended less than CLICK_DISTANCE screen pixels from where it began.
C6ClickIffNearAtAnyScale ==
  [][Resolves =>
       (lastGesture'.kind = "click"
          <=> ScreenDistSq < CLICK_DISTANCE * CLICK_DISTANCE)]_vars

\* C7: with focus-click enabled and no card focused, a gesture resolved as a
\* click focuses exactly the clicked card id and tile index and leaves every
\* committed delta unchanged.
C7ClickFocusesClickedReplica ==
  [][(Resolves /\ lastGesture'.kind = "click" /\ enableFocusClick
        /\ focusedCardId = NULL) =>
       /\ focusedCardId' = interactionState.cardId
       /\ internalTileIndex' = interactionState.tileIndex
       /\ draggedCardDeltas' = draggedCardDeltas]_vars

\* a click with nothing focused has focused the clicked replica of c2, a
\* card that carries a committed delta from an earlier drag
C7Witness ==
  /\ lastGesture = [kind |-> "click", focused |-> NULL]
  /\ enableFocusClick
  /\ focusedCardId = "c2"
  /\ internalTileIndex \in PointerTiles
  /\ internalTileIndex # centralTileIndex
  /\ draggedCardDeltas["c2"] # Zero2
  /\ interactionState.mode = "IDLE"

\* C8 as written: whenever some card is focused when a gesture is resolved
\* as a click, no card is focused afterwards.
C8ClickAlwaysClearsFocus ==
  [][(Resolves /\ lastGesture'.kind = "click" /\ focusedCardId # NULL) =>
       focusedCardId' = NULL]_vars

\* C8 amended: when some card is focused and a gesture is resolved as a
\* click, the focus is cleared if focus-click is enabled and otherwise stays
\* where it was; it never moves directly to another card.
C8ClickClearsFocusWhenEnabled ==
  [][(Resolves /\ lastGesture'.kind = "click" /\ focusedCardId # NULL) =>
       /\ enableFocusClick => (focusedCardId' = NULL /\ internalTileIndex' = NoTile)
       /\ ~enableFocusClick => UNCHANGED focusVars
       /\ focusedCardId' \in {NULL, focusedCardId}]_vars

\* a click on c1 was resolved while c2 was focused and left nothing focused
C8Witness ==
  /\ lastGesture = [kind |-> "click", focused |-> "c2"]
  /\ lastDraggedCardId = "c1"
  /\ focusedCardId = NULL
  /\ internalTileIndex = NoTile
  /\ interactionState.mode = "IDLE"

\* C9: every card's committed delta is the sum of the live deltas of its
\* resolved drags; resolving a drag of one card changes no other card's
\* delta.
C9DeltasAccumulate ==
  \A c \in CardIds : draggedCardDeltas[c] = sumLive[c]

\* c1 was dragged twice at unit scale, by (50, 0) and by (3, 4) pixels, and
\* c2 never
C9Witness ==
  /\ drags = 2
  /\ draggedCardDeltas["c1"] = [x |-> 53 * MILLI, y |-> 4 * MILLI]
  /\ draggedCardDeltas["c2"] = Zero2

\* C10: a gesture resolved as a drag leaves no card focused, whichever card
\* was focused before and whether or not focus-click is enabled.
C10DragClearsFocus ==
  [][(Resolves /\ lastGesture'.kind = "drag") =>
       (focusedCardId' = NULL /\ internalTileIndex' = NoTile)]_vars

\* a drag of c1 was resolved while c2 was focused and focus-click disabled
C10Witness ==
  /\ lastGesture = [kind |-> "drag", focused |-> "c2"]
  /\ lastDraggedCardId = "c1"
  /\ ~enableFocusClick
  /\ focusedCardId = NULL
  /\ interactionState.mode = "IDLE"

\* C11: a pointer-down on the container whose target is the container
\* itself leaves no card focused; a pointer-down on a card instance leaves
\* the focused card as it was.
C11BackgroundClearsFocusCardDoesNot ==
  [][/\ (pointersDown' = pointersDown + 1 /\ lastGesture'.kind = "background"
           /\ interactionState' = interactionState)
         => focusedCardId' = NULL
     /\ (pointersDown' = pointersDown + 1 /\ lastGesture' = lastGesture
           /\ activeDragCardId' # NULL)
         => focusedCardId' = focusedCardId]_vars

\* the pointer went down on the container itself while a clicked replica of
\* c2 was focused, and nothing is focused now; internalTileIndex still
\* names the replica
C11Witness ==
  /\ lastGesture = [kind |-> "background", focused |-> "c2"]
  /\ focusedCardId = NULL
  /\ internalTileIndex \in PointerTiles
  /\ pointersDown = 1
  /\ interactionState.mode = "IDLE"
  /\ lastDraggedCardId = "c1"

\* C12: a drag intent that arrives while a card is being dragged leaves the
\* pan velocity and the pan position as they were; a drag intent changes
\* the pan velocity only when it arrives in IDLE.
C12DragIntentPansOnlyInIdle ==
  [][(panIntents'.drag # panIntents.drag) =>
       /\ interactionState.mode = "DRAGGING_CARD"
            => (panVelocity' = panVelocity /\ panPosition' = panPosition)
       /\ panVelocity' # panVelocity => interactionState.mode = "IDLE"]_vars

\* two drag intents have arrived, the later one during a card drag: the pan
\* velocity is what the first one, received in IDLE, made it
C12Witness ==
  /\ interactionState.mode = "DRAGGING_CARD"
  /\ panIntents = [drag |-> 2, wheel |-> 0]
  /\ panVelocity = [x |-> -500, y |-> 0]
  /\ panPosition = InitialPan(containerSize)
  /\ ticks = 0

\* C13: once teardown has returned, no window pointer listener is attached
\* and no lift or snap-back tween started by the ticker is in flight (the
\* ticker, the observer and the touch listeners are gone with `mounted`).
C13TeardownReleasesEverything ==
  ~mounted => (windowListeners = {} /\ tweens = {})

\* C14: for every grid size from 1, odd or even, TILE_OFFSETS holds exactly
\* gridSize * gridSize pairs in row-major order, y outer and x inner, both
\* ascending.
C14GridSizeSquaredRowMajor ==
  /\ Len(TILE_OFFSETS) = tiling.gridSize * tiling.gridSize
  /\ \A i, j \in 1..Len(TILE_OFFSETS) :
       i < j => \/ TILE_OFFSETS[i].y < TILE_OFFSETS[j].y
                \/ /\ TILE_OFFSETS[i].y = TILE_OFFSETS[j].y
                   /\ TILE_OFFSETS[i].x < TILE_OFFSETS[j].x

\* C15: for an odd grid size the offsets are pairwise distinct, (0,0) is
\* among them exactly once, and with (x,y) they contain (-x,-y).
C15OddGridCentredSymmetric ==
  tiling.gridSize % 2 = 1 =>
    /\ \A i, j \in 1..Len(TILE_OFFSETS) :
         TILE_OFFSETS[i] = TILE_OFFSETS[j] => i = j
    /\ Cardinality({i \in 1..Len(TILE_OFFSETS) : TILE_OFFSETS[i] = Zero2}) = 1
    /\ \A i \in 1..Len(TILE_OFFSETS) :
         \E j \in 1..Len(TILE_OFFSETS) :
           TILE_OFFSETS[j] = [x |-> -TILE_OFFSETS[i].x, y |-> -TILE_OFFSETS[i].y]

\* the host has set a 5 x 5 grid with a gap, and the central replica of c1,
\* the one at offset (0,0), is focused
C15Witness ==
  /\ tiling = [gridSize |-> 5, tileGap |-> 200]
  /\ Len(TILE_OFFSETS) = 25
  /\ focusedCardId = "c1"
  /\ internalTileIndex = 12
  /\ TILE_OFFSETS[internalTileIndex + 1] = Zero2

\* C16: for every layer and axis, the offset w a frame paints for the
\* target v and the range r satisfies -r/2 <= w < r/2, and v - w is an
\* integer multiple of r, whatever the sign of v.
C16WrapInHalfOpenRange ==
  [][tick =>
       \A i \in 0..2 :
         LET v == layerTarget(i, panPosition')
             w == layerOffsets'[i]
             r == wrapRange
         IN  /\ -r.x <= 2 * w.x /\ 2 * w.x < r.x
             /\ -r.y <= 2 * w.y /\ 2 * w.y < r.y
             /\ (v.x - w.x) % r.x = 0
             /\ (v.y - w.y) % r.y = 0]_vars

\* with a tile gap set, the last frame painted the near layer from a target
\* more than one and a half ranges below zero in x and above half a range
\* in y
C16Witness ==
  /\ tileGap = 200
  /\ layerTarget(2, panPosition).x < -(3 * wrapRange.x) \div 2
  /\ 2 * layerTarget(2, panPosition).y >= wrapRange.y
  /\ layerOffsets = paintLayers(panPosition)
  /\ layerOffsets[2].x # layerTarget(2, panPosition).x

\* C17: shifting a layer's target by k ranges, k of either sign, leaves its
\* wrapped offset as it is.
C17WrapPeriodic ==
  \A i \in 0..2 : \A k \in -MaxK..MaxK :
    LET v == layerTarget(i, panPosition)
        r == wrapRange
    IN  /\ wrap(v.x + k * r.x, r.x) = wrap(v.x, r.x)
        /\ wrap(v.y + k * r.y, r.y) = wrap(v.y, r.y)

\* the far layer's target lies within half a range of zero and the near
\* layer's more than a range away, on the negative side in x
C17Witness ==
  /\ 2 * layerTarget(0, panPosition).x >= -wrapRange.x
  /\ 2 * layerTarget(0, panPosition).x < wrapRange.x
  /\ layerTarget(2, panPosition).x < -wrapRange.x
  /\ layerOffsets = paintLayers(panPosition)
  /\ ticks > 0

\* a frame that pulls the pan toward a focused card on a layer that moves
AttractionFrame ==
  /\ tick
  /\ focusedCardId \in CardIds
  /\ internalTileIndex \in TileIndices
  /\ layers[cards[focusedCardId].layer].speed > 0

\* the replica of the focused card k periods from its nominal target is
\* within half a period of `pan` (up to the unit lost in the division) and
\* the frame moved the pan from `pan` toward it by the focus lerp factor
PulledToReplica(k, pan, after, period, nominal, speed) ==
  LET replica == nominal + Div(k * period, speed)
  IN  /\ 2 * speed * Abs(pan - replica) <= period + 2 * speed
      /\ after = lerp(pan, replica, LERP_FACTOR_FOCUS)
      /\ 100 * 2 * speed * Abs(after - pan)
            <= LERP_FACTOR_FOCUS * (period + 2 * speed)

\* C18 as written: a frame with a card focused on a layer of speed > 0
\* moves the pan, on each axis, by at most the focus lerp factor times half
\* a pan period.
C18FrameMovesAtMostLerpHalfPeriod ==
  [][AttractionFrame =>
       LET speed == layers[cards[focusedCardId].layer].speed
       IN  /\ 100 * 2 * speed * Abs(panPosition'.x - panPosition.x)
                 <= LERP_FACTOR_FOCUS * (wrapRange.x + 2 * speed)
           /\ 100 * 2 * speed * Abs(panPosition'.y - panPosition.y)
                 <= LERP_FACTOR_FOCUS * (wrapRange.y + 2 * speed)]_vars

\* C18 amended: in such a frame the attraction target is, on each axis, a
\* whole number of pan periods from the card's nominal target and at most
\* half a period from the pan position the frame's velocity integration
\* produced, and the attraction moves the pan from that position by at most
\* the focus lerp factor times half a period.
C18NearestReplicaAfterVelocity ==
  [][AttractionFrame =>
       LET speed == layers[cards[focusedCardId].layer].speed
           nominal == cardTargetPan(focusedCardId, internalTileIndex)
       IN  /\ \E k \in -MaxK..MaxK :
                PulledToReplica(k, panPosition.x + panVelocity.x, panPosition'.x,
                                wrapRange.x, nominal.x, speed)
           /\ \E k \in -MaxK..MaxK :
                PulledToReplica(k, panPosition.y + panVelocity.y, panPosition'.y,
                                wrapRange.y, nominal.y, speed)]_vars

\* the pan was coasting on a wheel-pan impulse when c1 was clicked; one frame
\* has run since, with the clicked replica focused: its nominal target is
\* more than half a period from the pan position, and the frame carried the
\* pan 200 along the impulse and 72 back toward a nearer replica
C18Witness ==
  /\ ticks = 1
  /\ focusedCardId = "c1"
  /\ internalTileIndex = 0
  /\ panIntents = [drag |-> 0, wheel |-> 1]
  /\ panVelocity = [x |-> -188, y |-> 141]
  /\ InitialPan(containerSize).x = -2500
  /\ panPosition.x = -2628
  /\ 2 * layers[2].speed * Abs(panPosition.x - cardTargetPan("c1", 0).x) > wrapRange.x

\* C19: a wheel or pinch zoom intent that changes targetCameraZ,
\* zoomVelocity or panVelocity is not degenerate: its reference layer has a
\* speed other than 0 and PERSPECTIVE - (baseZ + target Z) is not 0 for the
\* old and the new target; a degenerate intent changes none of the three.
C19DegenerateZoomSkipped ==
  [][(zoomIntents' # zoomIntents) =>
       \/ UNCHANGED <<targetCameraZ, zoomVelocity, panVelocity>>
       \/ /\ layers[refLayerIndex].speed # 0
          /\ PERSPECTIVE - (layers[refLayerIndex].baseZ + targetCameraZ) # 0
          /\ PERSPECTIVE - (layers[refLayerIndex].baseZ + targetCameraZ') # 0]_vars

\* one zoom intent, a wheel event, has been received and skipped: the target
\* depth is the initial 0 of an unmeasured container and both velocities are
\* zero; the reference layer is the middle one at baseZ 980, where the
\* zoom-in target 20 has the denominator 0
C19Witness ==
  /\ layout = midLayer(6, 980)
  /\ focusedCardId = NULL
  /\ zoomIntents = 1
  /\ pinchStartDist = NoDist
  /\ targetCameraZ = 0
  /\ PERSPECTIVE - (layers[refLayerIndex].baseZ + targetCameraZ + ANTICIPATION_AMOUNT) = 0
  /\ zoomVelocity = 0
  /\ panVelocity = Zero2

C21StaticLayerFocusStaysFinite ==
  [][(/\ panFinite
      /\ focusedCardId \in CardIds
      /\ internalTileIndex \in TileIndices
      /\ layers[cards[focusedCardId].layer].speed = 0)
       => panFinite']_vars

\* C22: while the focused id names no card of the list, a frame applies no
\* attraction (pan moves by its velocity only, cameraZ by the free lerp
\* only) and completes, nothing focuses another card, and the focus ends up
\* cleared; this covers a request for an unknown id and the removal of the
\* focused card.
C22StaleFocusIsInertAndCleared ==
  /\ [][focusIsStale =>
          /\ focusedCardId' \in {focusedCardId, NULL}
          /\ panPosition' \in
                {panPosition, [x |-> panPosition.x + panVelocity.x,
                               y |-> panPosition.y + panVelocity.y]}
          /\ cameraZ' \in
                {cameraZ,
                 lerp(cameraZ, integrateTargetZ(targetCameraZ, zoomVelocity),
                      LERP_FACTOR_FREE)}
          /\ panFinite']_vars
  /\ (focusIsStale ~> focusedCardId = NULL)

\* c2 is gone from the list and the focus is cleared while the tile index of
\* a focus request is still set: the focus effect has cleared a stale focus
C22Witness ==
  /\ cardList = {"c1"}
  /\ focusedCardId = NULL
  /\ internalTileIndex = centralTileIndex

\* C23: a drag intent that arrives while two contacts are down leaves
\* panVelocity as it was; one that arrives with fewer than two contacts
\* down and no card gesture in progress, also after a two-finger gesture
\* has ended, subtracts its scaled delta from panVelocity.
C23PinchSuppressesDragPan ==
  [][panIntents'.drag = panIntents.drag + 1 =>
       IF touches = 2
         THEN panVelocity' = panVelocity
         ELSE interactionState.mode = "IDLE" =>
                \E delta \in PanDeltas :
                  panVelocity' = [x |-> panVelocity.x - panDelta(delta).x,
                                  y |-> panVelocity.y - panDelta(delta).y]]_vars

\* two drag intents have arrived and only one counted, and that one came
\* after the gesture: its impulse has the scale of the depth the pinch and
\* a frame left behind, and no second gesture began after the pinch moved
\* the target depth
C23Witness ==
  /\ touches = 0
  /\ ~isPinching
  /\ zoomIntents = 1
  /\ ticks = 1
  /\ cameraZ # initialZoom
  /\ pinchStartCameraZ = initialZoom
  /\ targetCameraZ # initialZoom
  /\ panIntents.drag = 2
  /\ interactionState.mode = "IDLE"
  /\ panVelocity = [x |-> 0 - panDelta([x |-> 100, y |-> 0]).x, y |-> 0]
  /\ panVelocity.x # 0 - Div(100 * scrollSpeed * EffectiveScaleDen(initialZoom), PERSPECTIVE)

\* C24: with enableFocusClick on, the release of a pointer pressed on a card
\* and not moved, while no card is focused, focuses a card, whether
\* enableCardDrag is on or off; with enableCardDrag on, the release that
\* resolves a drag commits dragStartDelta + liveDelta, whether
\* enableFocusClick is on or off.
C24TogglesIndependent ==
  [][pointersDown' = pointersDown - 1 =>
       /\ (/\ enableFocusClick
           /\ focusedCardId = NULL
           /\ enableCardDrag => (/\ interactionState.mode = "DRAGGING_CARD"
                                 /\ isClick(interactionState.liveDelta)))
            => focusedCardId' \in CardIds
       /\ (/\ enableCardDrag
           /\ Resolves
           /\ ~isClick(interactionState.liveDelta))
            => draggedCardDeltas'[interactionState.cardId] =
                 committedDelta(interactionState.dragStartDelta,
                                interactionState.liveDelta)]_vars

\* C25: whenever the mode is IDLE, the position last written to the
\* elements of every card of the list is its authored position plus its
\* committed dragged delta.
C25IdlePositionsAreCommitted ==
  interactionState.mode = "IDLE" =>
    \A c \in cardList : cardOffset[c] = draggedCardDeltas[c]

\* C26: in every reachable state focusedCardId is null exactly when the
\* focused tile index is null.
C26FocusIdIffTileIndex ==
  (focusedCardId = NULL) <=> (internalTileIndex = NoTile)

\* the camera rests on the focused card: no velocity, pan at the target of
\* the nearest replica, cameraZ at the card's clamped target depth
RestsOnFocusedCard ==
  /\ focusedCardId \in cardList
  /\ internalTileIndex \in TileIndices
  /\ cardTargetPanFinite(focusedCardId)
  /\ panVelocity = Zero2
  /\ zoomVelocity = 0
  /\ panPosition = closestTargetPan(focusedCardId, internalTileIndex, panPosition)
  /\ cameraZ = cardTargetZ(focusedCardId)

\* C27: a step that starts with the camera resting on the focused card and
\* keeps the focus leaves panPosition and cameraZ as they were, for every
\* targetCameraZ in [MIN_CAMERA_Z, MAX_CAMERA_Z].
C27RestOnFocusedCardIsFixedPoint ==
  [][(/\ RestsOnFocusedCard
      /\ InRange(targetCameraZ)
      /\ focusedCardId' = focusedCardId)
       => (panPosition' = panPosition /\ cameraZ' = cameraZ)]_vars

\* C28: once a card gesture has ended (the mode is back to IDLE and
\* lastDraggedCardId names the card), a later frame issues the snap-back
\* and clears lastDraggedCardId, unless a new card gesture begins first.
C28GestureEndLeadsToSnapBack ==
  (interactionState.mode = "IDLE" /\ lastDraggedCardId # NULL)
    ~> (lastDraggedCardId = NULL \/ interactionState.mode = "DRAGGING_CARD")

\* two pan positions that differ, on each axis, by no more than the two
\* units the truncating divisions of cardTargetPan and closestTargetPan can
\* lose
SamePanUpToDivision(p, q) ==
  Abs(p.x - q.x) <= 2 /\ Abs(p.y - q.y) <= 2

\* C29: in a frame that attracts the pan toward a focused card on a layer of
\* speed > 0, every tile index of the card gives the nearest-replica target
\* the frame used (up to the unit the model's divisions truncate to), and
\* the pan after the frame is the lerp toward it.
C29TargetSameForEveryTile ==
  [][AttractionFrame =>
       LET pan1 == [x |-> panPosition.x + panVelocity.x,
                    y |-> panPosition.y + panVelocity.y]
           used == closestTargetPan(focusedCardId, internalTileIndex, pan1)
       IN  /\ panPosition' = [x |-> lerp(pan1.x, used.x, LERP_FACTOR_FOCUS),
                              y |-> lerp(pan1.y, used.y, LERP_FACTOR_FOCUS)]
           /\ \A t \in TileIndices :
                SamePanUpToDivision(closestTargetPan(focusedCardId, t, pan1), used)]_vars

\* card c2, dragged by 50 px, was then clicked on the tile to the right of
\* the centre, and a frame has pulled the pan toward it
C29Witness ==
  /\ focusedCardId = "c2"
  /\ internalTileIndex = 5
  /\ draggedCardDeltas["c2"] # Zero2
  /\ lastGesture.kind = "click"
  /\ ticks = 1
  /\ panPosition # InitialPan(containerSize)

\* C30: in every reachable state the interaction record is well-formed: the
\* mode is IDLE or DRAGGING_CARD, never PANNING; DRAGGING_CARD comes with a
\* card id and a tile index; IDLE comes with neither and a zero liveDelta.
C30InteractionRecordWellFormed ==
  /\ interactionState.mode \in {"IDLE", "DRAGGING_CARD"}
  /\ interactionState.mode = "DRAGGING_CARD" =>
       /\ interactionState.cardId \in CardIds
       /\ interactionState.tileIndex \in TileIndices
  /\ interactionState.mode = "IDLE" =>
       /\ interactionState.cardId = NULL
       /\ interactionState.tileIndex = NoTile
       /\ interactionState.liveDelta = Zero2

\* a drag of c2 has been committed and the record is idle while a pointer
\* is still down: the second pointer-down came before the first pointer-up
C30Witness ==
  /\ interactionState.mode = "IDLE"
  /\ pointersDown = 1
  /\ lastDraggedCardId = "c2"
  /\ draggedCardDeltas["c2"] # Zero2

====
